---- MODULE Spec2Model ----
(***************************************************************************)
(* Geo-fencing service of 7.geo-fencing-service.ipynb: clusters (Cassandra *)
(* read + DBSCAN), regions (one convex hull per cluster), in_hull          *)
(* (Delaunay point location), location_alert and the Flask route alert_api.*)
(*                                                                         *)
(* Coordinates are integers counting units of 1/UnitsPerDegree degree, so  *)
(* that eps = 260 m = 4.68 units: lattice neighbours at distance 4 are     *)
(* within eps, diagonal neighbours (5.66) are not.                         *)
(***************************************************************************)
EXTENDS Integers, Sequences, FiniteSets, TLC

\* ---------------------------------------------------------------- bounds
\* Largest number of events a user has in the Event Store.
MaxLen == 6
\* Largest history in the interleaved specification SpecConc.
ConcMaxLen == 3
\* Largest labelled table handed to regions in SpecRegions.
RegMaxRows == 6

\* ------------------------------------------------------- program constants
\* def clusters(uid, radius=260)
radius == 260
\* "1deg at 40deg latitude is 111034.61 meters", rounded to the metre
MetresPerDegree == 111035
\* DBSCAN(eps=eps, min_samples=3)
min_samples == 3
\* sklearn's label of a point that belongs to no cluster
NOISE == -1

\* model units per degree (one unit = 0.0005 degree)
UnitsPerDegree == 2000

\* ------------------------------------------------------------- geometry
\* The venues a user can have checked in at: an L-shaped group of three and,
\* far from it, a pair.
GridSeq ==
  << <<0, 0>>, <<4, 0>>, <<0, 4>>, <<20, 0>>, <<24, 0>> >>

\* The venues of the first group alone.
GroupASeq == << <<0, 0>>, <<4, 0>>, <<0, 4>> >>

Dist2(p, q) == (p[1] - q[1]) * (p[1] - q[1]) + (p[2] - q[2]) * (p[2] - q[2])

\* eps = radius/111034.61 degrees; |p - q| <= eps, compared on squares and
\* with both sides divided by 100 to stay inside 32-bit integers.
EpsDen == (MetresPerDegree \div 100) * (MetresPerDegree \div 100)
EpsNum ==
  ((radius * UnitsPerDegree) \div 100) * ((radius * UnitsPerDegree) \div 100)

WithinEps(p, q) == Dist2(p, q) * EpsDen <= EpsNum

\* Twice the signed area of the triangle a, b, c.
Orient(a, b, c) ==
  (b[1] - a[1]) * (c[2] - a[2]) - (b[2] - a[2]) * (c[1] - a[1])

Collinear(S) == \A a \in S, b \in S, c \in S : Orient(a, b, c) = 0

\* q lies in the closed triangle a, b, c, which is not flat.
InSimplex(a, b, c, q) ==
  LET o1 == Orient(a, b, q)
      o2 == Orient(b, c, q)
      o3 == Orient(c, a, q)
  IN  \/ (o1 >= 0 /\ o2 >= 0 /\ o3 >= 0)
      \/ (o1 <= 0 /\ o2 <= 0 /\ o3 <= 0)

\* ------------------------------------------------------ sequences helpers
RECURSIVE AscSeq(_)
AscSeq(S) ==
  IF S = {} THEN <<>>
  ELSE LET m == CHOOSE x \in S : \A y \in S : x <= y
       IN  <<m>> \o AscSeq(S \ {m})

Front(s) == SubSeq(s, 1, Len(s) - 1)
Last(s) == s[Len(s)]
RemoveAt(s, i) == SubSeq(s, 1, i - 1) \o SubSeq(s, i + 1, Len(s))
Range(s) == { s[i] : i \in DOMAIN s }

\* Every order in which the rows of h can be delivered (no order twice).
RECURSIVE Arrangements(_)
Arrangements(h) ==
  IF h = <<>> THEN { <<>> }
  ELSE UNION { { <<h[i]>> \o r : r \in Arrangements(RemoveAt(h, i)) } :
               i \in { j \in DOMAIN h : \A l \in 1..(j - 1) : h[l] # h[j] } }

\* ---------------------------------------------------------------- DBSCAN
\* radius_neighbors: the rows within eps of row i, row i included.
Neighborhood(X, i) == { j \in DOMAIN X : WithinEps(X[i], X[j]) }

\* core_samples: rows with at least min_samples rows in their neighbourhood
IsCore_mutant(X, i) == Cardinality(Neighborhood(X, i)) >= min_samples - 1
IsCore(X, i) == Cardinality(Neighborhood(X, i)) >= min_samples

\* dbscan_inner: the neighbours of core row i that are pushed on the stack,
\* those still labelled -1.
to_visit_mutant(X, labels, i) ==
  { v \in Neighborhood(X, i) : labels[v] = NOISE /\ v > i }
to_visit(X, labels, i) == { v \in Neighborhood(X, i) : labels[v] = NOISE }

\* dbscan_inner's depth-first growth of cluster lab from row i.
RECURSIVE Expand(_, _, _, _, _)
Expand(X, labels, stack, i, lab) ==
  LET fresh == labels[i] = NOISE
      labels1 == IF fresh THEN [labels EXCEPT ![i] = lab] ELSE labels
      pushed == IF fresh /\ IsCore(X, i)
                THEN AscSeq(to_visit(X, labels1, i))
                ELSE <<>>
      stack1 == stack \o pushed
  IN  IF stack1 = <<>> THEN labels1
      ELSE Expand(X, labels1, Front(stack1), Last(stack1), lab)

\* dbscan_inner's scan of the rows in table order.
RECURSIVE Scan(_, _, _, _)
Scan(X, labels, i, lab) ==
  IF i > Len(X) THEN labels
  ELSE IF labels[i] # NOISE \/ ~IsCore(X, i)
       THEN Scan(X, labels, i + 1, lab)
       ELSE Scan(X, Expand(X, labels, <<>>, i, lab), i + 1, lab + 1)

\* DBSCAN(eps, min_samples).fit(data).labels_
DBSCAN_fit(X) == Scan(X, [i \in DOMAIN X |-> NOISE], 1, 0)

\* ------------------------------------------------------------ the table
\* A DataFrame is kept as the bag of its rows [lon, lat, cl]: a function
\* from the rows present to the number of times each occurs.
BagOf(s) == [r \in Range(s) |-> Cardinality({ i \in DOMAIN s : s[i] = r })]

EmptyBag == BagOf(<<>>)

RECURSIVE SumOver(_, _)
SumOver(f, S) ==
  IF S = {} THEN 0
  ELSE LET x == CHOOSE y \in S : TRUE
       IN  f[x] + SumOver(f, S \ {x})

NRows(bag) == SumOver(bag, DOMAIN bag)

\* data['cl'] = db.labels_ on the rows in the order they were delivered
Labelled(rows) ==
  LET labels == DBSCAN_fit(rows)
  IN  [i \in DOMAIN rows |->
         [lon |-> rows[i][1], lat |-> rows[i][2], cl |-> labels[i]]]

\* group[['lon','lat']].as_matrix() of the group with label cl, as a bag
GroupPoints(data, cl) ==
  LET rs == { r \in DOMAIN data : r.cl = cl }
      ps == { <<r.lon, r.lat>> : r \in rs }
  IN  [p \in ps |-> data[[lon |-> p[1], lat |-> p[2], cl |-> cl]]]

\* ----------------------------------------------------------------- regions
\* data.groupby('cl') yields the groups by ascending label, NOISE (-1) first.
groupby_keys_mutant(data) ==
  LET asc == AscSeq({ r.cl : r \in DOMAIN data })
  IN  [i \in DOMAIN asc |-> asc[Len(asc) + 1 - i]]
groupby_keys(data) == AscSeq({ r.cl : r \in DOMAIN data })

\* `points` before its first assignment: using it raises NameError.
Unbound == EmptyBag

\* ConvexHull(points, 'QJ Pp') raises QhullError when there are fewer than
\* three rows for the initial simplex, and when all rows coincide: the joggle
\* is capped by a fraction of the width of the input, which is then zero.
\* Three or more collinear rows of which two differ are joggled into general
\* position and give a hull.
QhullError_mutant(points) ==
  NRows(points) < 3 \/ Collinear(DOMAIN points)
QhullError(points) ==
  NRows(points) < 3 \/ Cardinality(DOMAIN points) < 2

OnSegment(a, b, q) ==
  /\ Orient(a, b, q) = 0
  /\ (a[1] <= q[1] /\ q[1] <= b[1]) \/ (b[1] <= q[1] /\ q[1] <= a[1])
  /\ (a[2] <= q[2] /\ q[2] <= b[2]) \/ (b[2] <= q[2] /\ q[2] <= a[2])

\* The points of hull.vertices. For rows in general position these are the
\* corners of the hull. For collinear rows the joggle decides which rows are
\* listed; every outcome is a collinear point set, and in_hull reads nothing
\* else of it, so the rows themselves stand for all outcomes.
hull_vertices(points) ==
  LET S == DOMAIN points
  IN  IF Collinear(S) THEN S
      ELSE { p \in S :
               /\ ~\E a \in S \ {p}, b \in S \ {p} :
                     a # b /\ OnSegment(a, b, p)
               /\ ~\E a \in S \ {p}, b \in S \ {p}, c \in S \ {p} :
                     Orient(a, b, c) # 0 /\ InSimplex(a, b, c, p) }

\* The body of regions' for loop, over the remaining group labels.
RECURSIVE regions_loop(_, _, _, _)
regions_loop(data, keys, points, hulls) ==
  IF keys = <<>> THEN hulls
  ELSE LET cl == Head(keys)
           points1 == IF cl >= 0 THEN GroupPoints(data, cl) ELSE points
           raised == points1 = Unbound \/ QhullError(points1)
           hulls1 == IF raised THEN hulls
                     ELSE Append(hulls, hull_vertices(points1))
       IN  regions_loop(data, Tail(keys), points1, hulls1)

regions(data) == regions_loop(data, groupby_keys(data), Unbound, <<>>)

\* ----------------------------------------------------------------- floats
\* A Python float: finite with a value, nan, or inf.
Fin(v) == [cls |-> "finite", val |-> v]
NaN == [cls |-> "nan", val |-> 0]
Inf == [cls |-> "inf", val |-> 0]
IsFinite(x) == x.cls = "finite"

\* The <lon> and <lat> path segments a client sends, in model units.
Decimal ==
  ("0" :> 0) @@ ("1" :> 1) @@ ("2" :> 2) @@ ("9" :> 9) @@ ("22" :> 22)

\* float(lon), float(lat): Python parses "nan" and "inf" without error.
float(s) ==
  IF s = "nan" THEN NaN
  ELSE IF s = "inf" THEN Inf
  ELSE Fin(Decimal[s])

\* json.dumps of a bool
json_dumps(b) == IF b THEN "true" ELSE "false"

\* ----------------------------------------------------------------- in_hull
\* Delaunay(convexhull, 'QJ Pp').simplices that have a barycentric transform:
\* a flat simplex gets a NaN transform and contains nothing. The triangles
\* over the vertices cover the same polygon as the Delaunay ones.
simplices(convexhull) ==
  { t \in convexhull \X convexhull \X convexhull :
      Orient(t[1], t[2], t[3]) > 0 }

\* hull.find_simplex(p) >= 0, and res = False when Delaunay raises. A nan or
\* inf coordinate lies in no simplex.
in_hull_mutant(p, convexhull) ==
  IF ~(IsFinite(p[1]) /\ IsFinite(p[2])) THEN FALSE
  ELSE IF simplices(convexhull) = {} THEN TRUE
  ELSE \E t \in simplices(convexhull) :
         InSimplex(t[1], t[2], t[3], <<p[1].val, p[2].val>>)
in_hull(p, convexhull) ==
  IF ~(IsFinite(p[1]) /\ IsFinite(p[2])) THEN FALSE
  ELSE \E t \in simplices(convexhull) :
         InSimplex(t[1], t[2], t[3], <<p[1].val, p[2].val>>)

\* ------------------------------------------------------------------ state
\* The requests the Flask server is handling, and the users of lbsn.events.
Evals == { "r1", "r2" }
Users == { 22, 23 }

VARIABLES
  store,     \* lbsn.events: per uid, the (lon, lat) rows, in canonical order
  pc,        \* per request: where its handler stands
  args,      \* per request: the <lon>, <lat> path segments
  uid,       \* per request: the <int:uid> path segment
  lon,       \* per request: float(lon)
  lat,       \* per request: float(lat)
  data,      \* per request: the labelled table clusters returned
  hulls,     \* per request: the list regions returned
  k,         \* per request: location_alert's loop index (1-based)
  result,    \* per request: location_alert's result
  response,  \* per request: the body alert_api returned, "none" before
  exc,       \* per request: the exception that ended the handler, or "none"
  reads      \* per request: number of session.execute calls made

vars ==
  << store, pc, args, uid, lon, lat, data, hulls, k, result, response,
     exc, reads >>

\* Histories of at most n rows over the venues of items, in canonical order.
RECURSIVE SortedSeqs(_, _, _)
SortedSeqs(items, lo, n) ==
  IF n = 0 THEN { <<>> }
  ELSE { <<>> } \cup
       UNION { { <<items[i]>> \o s : s \in SortedSeqs(items, i, n - 1) } :
               i \in lo..Len(items) }

\* The histories a user of the model can have.
Histories == SortedSeqs(GridSeq, 1, MaxLen)

\* rows = session.execute(...); data = pd.DataFrame(list(rows)); fit; label:
\* every table clusters can return for the history h, one per delivery order.
clusters_of(h) == { BagOf(Labelled(rows)) : rows \in Arrangements(h) }

\* clusters_of, tabulated once over the histories.
ClustersTable == [h \in Histories |-> clusters_of(h)] @@ <<>>

\* The requests a client sends: inside, on an edge of and outside the first
\* group; between the venues of the pair; nan and inf.
QueryArgs ==
  { <<"1", "1">>, <<"2", "0">>, <<"22", "0">>, <<"9", "9">>,
    <<"nan", "1">>, <<"1", "inf">> }

ConcArgs == { <<"1", "1">>, <<"9", "9">> }

\* The rows a labelled table can hold in SpecRegions: the venues of the first
\* group, each labelled NOISE, 0 or 1.
RegLabelSeq == << NOISE, 0, 1 >>

RegRowSeq ==
  [i \in 1..(Len(GroupASeq) * Len(RegLabelSeq)) |->
     [lon |-> GroupASeq[((i - 1) % Len(GroupASeq)) + 1][1],
      lat |-> GroupASeq[((i - 1) % Len(GroupASeq)) + 1][2],
      cl |-> RegLabelSeq[((i - 1) \div Len(GroupASeq)) + 1]]]

\* The frame whose `hulls` a request reads and writes: hulls is a local of
\* location_alert, so each call has its own.
hulls_scope_mutant(e) == "r1"
hulls_scope(e) == e

\* Where an exception raised inside clusters ends up: neither clusters nor
\* location_alert nor alert_api has a handler on that path, so the request
\* ends with the exception.
uncaught_mutant(name) == "clustered"
uncaught(name) == "raised"

Blank ==
  /\ lon = [e \in Evals |-> Fin(0)]
  /\ lat = [e \in Evals |-> Fin(0)]
  /\ data = [e \in Evals |-> EmptyBag]
  /\ hulls = [e \in Evals |-> <<>>]
  /\ k = [e \in Evals |-> 0]
  /\ result = [e \in Evals |-> FALSE]
  /\ response = [e \in Evals |-> "none"]
  /\ exc = [e \in Evals |-> "none"]
  /\ reads = [e \in Evals |-> 0]

\* One request for one user with any history of at most MaxLen events.
Init ==
  /\ \E h \in Histories :
       store = [u \in Users |-> IF u = 22 THEN h ELSE <<>>]
  /\ pc = [e \in Evals |-> IF e = "r1" THEN "request" ELSE "off"]
  /\ \E a \in QueryArgs : args = [e \in Evals |-> a]
  /\ uid = [e \in Evals |-> 22]
  /\ Blank

\* Two requests in flight over the same store.
InitConc ==
  /\ \E h \in SortedSeqs(GroupASeq, 1, ConcMaxLen) :
       store = [u \in Users |->
                  IF u = 22 THEN h ELSE GroupASeq]
  /\ pc = [e \in Evals |-> "request"]
  /\ args \in [Evals -> ConcArgs]
  /\ uid \in [Evals -> Users]
  /\ Blank

\* regions is about to be called on any labelled table of at most RegMaxRows
\* rows.
InitRegions ==
  /\ store = [u \in Users |-> <<>>]
  /\ pc = [e \in Evals |-> IF e = "r1" THEN "clustered" ELSE "off"]
  /\ args = [e \in Evals |-> <<"1", "1">>]
  /\ uid = [e \in Evals |-> 22]
  /\ lon = [e \in Evals |-> Fin(1)]
  /\ lat = [e \in Evals |-> Fin(1)]
  /\ \E t \in SortedSeqs(RegRowSeq, 1, RegMaxRows) :
       data = [e \in Evals |-> IF e = "r1" THEN BagOf(t) ELSE EmptyBag]
  /\ hulls = [e \in Evals |-> <<>>]
  /\ k = [e \in Evals |-> 0]
  /\ result = [e \in Evals |-> FALSE]
  /\ response = [e \in Evals |-> "none"]
  /\ exc = [e \in Evals |-> "none"]
  /\ reads = [e \in Evals |-> 1]

\* ---------------------------------------------------------------- actions
\* alert_api up to the call of location_alert, and result = False
alert_api(e) ==
  /\ pc[e] = "request"
  /\ lon' = [lon EXCEPT ![e] = float(args[e][1])]
  /\ lat' = [lat EXCEPT ![e] = float(args[e][2])]
  /\ result' = [result EXCEPT ![e] = FALSE]
  /\ pc' = [pc EXCEPT ![e] = "called"]
  /\ UNCHANGED << store, args, uid, data, hulls, k, response, exc, reads >>

\* clusters: session.execute fails or times out
execute_raises(e) ==
  /\ pc[e] = "called"
  /\ reads' = [reads EXCEPT ![e] = @ + 1]
  /\ exc' = [exc EXCEPT ![e] = "UpstreamError"]
  /\ pc' = [pc EXCEPT ![e] = uncaught("UpstreamError")]
  /\ UNCHANGED << store, args, uid, lon, lat, data, hulls, k, result,
                  response >>

\* clusters: the user has no rows, DBSCAN.fit rejects the empty table
fit_raises(e) ==
  /\ pc[e] = "called"
  /\ store[uid[e]] = <<>>
  /\ reads' = [reads EXCEPT ![e] = @ + 1]
  /\ exc' = [exc EXCEPT ![e] = "ValueError"]
  /\ pc' = [pc EXCEPT ![e] = uncaught("ValueError")]
  /\ UNCHANGED << store, args, uid, lon, lat, data, hulls, k, result,
                  response >>

\* clusters: the rows arrive in some order and are labelled
clusters(e) ==
  /\ pc[e] = "called"
  /\ store[uid[e]] # <<>>
  /\ \E d \in ClustersTable[store[uid[e]]] :
       data' = [data EXCEPT ![e] = d]
  /\ reads' = [reads EXCEPT ![e] = @ + 1]
  /\ pc' = [pc EXCEPT ![e] = "clustered"]
  /\ UNCHANGED << store, args, uid, lon, lat, hulls, k, result, response,
                  exc >>

\* hulls = regions(...), and the for loop is entered
call_regions(e) ==
  /\ pc[e] = "clustered"
  /\ hulls' = [hulls EXCEPT ![hulls_scope(e)] = regions(data[e])]
  /\ k' = [k EXCEPT ![e] = 1]
  /\ pc' = [pc EXCEPT ![e] = "loop"]
  /\ UNCHANGED << store, args, uid, lon, lat, data, result, response, exc,
                  reads >>

\* one iteration: result = result or in_hull([lon, lat], hulls[k])
loop(e) ==
  /\ pc[e] = "loop"
  /\ k[e] <= Len(hulls[hulls_scope(e)])
  /\ result' = [result EXCEPT ![e] =
                  @ \/ in_hull(<<lon[e], lat[e]>>, hulls[hulls_scope(e)][k[e]])]
  /\ k' = [k EXCEPT ![e] = @ + 1]
  /\ UNCHANGED << store, pc, args, uid, lon, lat, data, hulls, response,
                  exc, reads >>

\* return (not result), and alert_api's json.dumps
return(e) ==
  /\ pc[e] = "loop"
  /\ k[e] > Len(hulls[hulls_scope(e)])
  /\ response' = [response EXCEPT ![e] = json_dumps(~result[e])]
  /\ pc' = [pc EXCEPT ![e] = "done"]
  /\ UNCHANGED << store, args, uid, lon, lat, data, hulls, k, result, exc,
                  reads >>

Next ==
  \E e \in Evals :
    \/ alert_api(e)
    \/ execute_raises(e)
    \/ fit_raises(e)
    \/ clusters(e)
    \/ call_regions(e)
    \/ loop(e)
    \/ return(e)

Spec == Init /\ [][Next]_vars

SpecConc == InitConc /\ [][Next]_vars

NextRegions == \E e \in Evals : call_regions(e)

SpecRegions == InitRegions /\ [][NextRegions]_vars

\* ----------------------------------------------------- what the claims use
Finished(e) == pc[e] \in { "done", "raised" }

FiniteQuery(e) == IsFinite(lon[e]) /\ IsFinite(lat[e])

FiniteArgs(e) == IsFinite(float(args[e][1])) /\ IsFinite(float(args[e][2]))

Query(e) == <<lon[e].val, lat[e].val>>

\* The non-NOISE labels of a labelled table, and the points of one label.
ClusterLabels(d) == { r.cl : r \in DOMAIN d } \ { NOISE }

ClusterPoints(d, cl) ==
  { <<r.lon, r.lat>> : r \in { x \in DOMAIN d : x.cl = cl } }

\* q lies inside or on the boundary of the convex hull of the points S: it is
\* in a triangle, on a segment or at a point spanned by points of S.
InConvexHull(q, S) ==
  \E a \in S, b \in S, c \in S :
    IF Orient(a, b, c) # 0 THEN InSimplex(a, b, c, q)
    ELSE OnSegment(a, b, q) \/ OnSegment(b, c, q) \/ OnSegment(a, c, q)

\* The split of the points into clusters and NOISE, label values forgotten.
Partition(d) ==
  [clusters |-> { ClusterPoints(d, cl) : cl \in ClusterLabels(d) },
   noise |-> ClusterPoints(d, NOISE)]

\* The table, the regions and the answer for the history taken in its
\* canonical order.
RefData(e) == BagOf(Labelled(store[uid[e]]))

RefVerdict(e) ==
  LET hs == regions(RefData(e))
  IN  json_dumps(~\E j \in DOMAIN hs : in_hull(<<lon[e], lat[e]>>, hs[j]))

\* Region j of request e contains the query point.
Contains(e, j) ==
  /\ FiniteQuery(e)
  /\ ~Collinear(hulls[e][j])
  /\ InConvexHull(Query(e), hulls[e][j])

\* ------------------------------------------------------------------ claims
\* C1 (as stated): for every history and every query point the request ends
\* with an answer, and the answer is false exactly when the point lies inside
\* or on the boundary of the convex hull of some non-NOISE cluster.
C1_VerdictIffInsideSomeClusterHull ==
  \A e \in Evals :
    (Finished(e) /\ exc[e] # "UpstreamError" /\ FiniteQuery(e)) =>
      /\ pc[e] = "done"
      /\ (response[e] = "false") <=>
           \E cl \in ClusterLabels(data[e]) :
             InConvexHull(Query(e), ClusterPoints(data[e], cl))

\* C2 (as stated): for a user with no events the request ends with the answer
\* true, not with an error.
C2_EmptyHistoryAnswersTrue ==
  \A e \in Evals :
    (store[uid[e]] = <<>> /\ Finished(e) /\ exc[e] # "UpstreamError") =>
      pc[e] = "done" /\ response[e] = "true" /\ exc[e] = "none"

\* C3: for a history of one or two events every row is labelled NOISE, regions
\* returns no Region, the answer is true, and nothing but a failed read of
\* the store can end the request with an error.
C3_ShortHistoryAnswersTrue ==
  \A e \in Evals :
    Len(store[uid[e]]) \in 1..2 =>
      /\ exc[e] \in { "none", "UpstreamError" }
      /\ pc[e] \in { "clustered", "loop", "done" } =>
           /\ NRows(data[e]) = Len(store[uid[e]])
           /\ \A r \in DOMAIN data[e] : r.cl = NOISE
      /\ pc[e] \in { "loop", "done" } => hulls[e] = <<>>
      /\ pc[e] = "done" => response[e] = "true"

C3_Witness ==
  \E e \in Evals :
    /\ Len(store[uid[e]]) = 2
    /\ pc[e] = "done"
    /\ response[e] = "true"
    /\ FiniteQuery(e)

\* C4: when the read of the Event Store fails the request ends with that
\* error: no answer is ever returned for it and no table, region list or
\* membership result is produced.
C4_UpstreamErrorPropagates ==
  \A e \in Evals :
    exc[e] = "UpstreamError" =>
      /\ pc[e] = "raised"
      /\ response[e] = "none"
      /\ data[e] = EmptyBag
      /\ hulls[e] = <<>>
      /\ k[e] = 0
      /\ ~result[e]

C4_Witness ==
  \E e \in Evals :
    /\ exc[e] = "UpstreamError"
    /\ pc[e] = "raised"
    /\ store[uid[e]] # <<>>

\* C5 (as stated): a request whose longitude or latitude is nan or inf is
\* rejected before the history is clustered and never gets an answer.
C5_NonFiniteQueryRejected ==
  \A e \in Evals :
    ~FiniteArgs(e) =>
      /\ pc[e] \notin { "clustered", "loop", "done" }
      /\ response[e] = "none"

\* C6: whatever the order in which the store delivers the rows, the split
\* into clusters and NOISE, the set of regions and the answer are those of
\* the canonical order.
C6_OrderOfHistoryIrrelevant ==
  \A e \in Evals :
    /\ pc[e] \in { "clustered", "loop", "done" } =>
         Partition(data[e]) = Partition(RefData(e))
    /\ pc[e] \in { "loop", "done" } =>
         Range(hulls[e]) = Range(regions(RefData(e)))
    /\ pc[e] = "done" => response[e] = RefVerdict(e)

C6_Witness ==
  \E e \in Evals :
    /\ pc[e] = "done"
    /\ data[e] # RefData(e)
    /\ Len(hulls[e]) = 2
    /\ hulls[e] # regions(RefData(e))
    /\ response[e] = "false"

\* C7: with requests interleaved, each reads the store once, the store never
\* changes, and each answer and region list is the one the request gets when
\* it runs alone.
C7_InterleavedRequestsIndependent ==
  /\ [](\A e \in Evals :
          /\ reads[e] <= 1
          /\ pc[e] \in { "loop", "done" } =>
               Range(hulls[e]) = Range(regions(RefData(e)))
          /\ pc[e] = "done" => reads[e] = 1 /\ response[e] = RefVerdict(e))
  /\ [][store' = store]_vars

C7_Witness ==
  /\ pc["r1"] = "loop" /\ k["r1"] = 2 /\ result["r1"]
  /\ pc["r2"] = "loop" /\ k["r2"] = 1 /\ hulls["r2"] = <<>>
  /\ uid["r1"] # uid["r2"]

\* C8: regions returns, in label order, exactly one Region for each non-NOISE
\* label whose hull computation succeeds, and nothing else.
C8_OneRegionPerSuccessfulCluster ==
  \A e \in Evals :
    pc[e] = "loop" =>
      LET d == data[e]
          good == AscSeq({ cl \in ClusterLabels(d) :
                            ~QhullError(GroupPoints(d, cl)) })
      IN  /\ Len(hulls[e]) = Len(good)
          /\ \A j \in DOMAIN good :
               hulls[e][j] = hull_vertices(GroupPoints(d, good[j]))

C8_Witness ==
  \E e \in Evals :
    /\ pc[e] = "loop"
    /\ ClusterPoints(data[e], NOISE) # {}
    /\ ClusterLabels(data[e]) = { 0, 1 }
    /\ NRows(GroupPoints(data[e], 0)) = 2
    /\ Len(hulls[e]) = 1
    /\ hulls[e][1] = ClusterPoints(data[e], 1)

C10_FailedTriangulationCountsAsOutside ==
  \A e \in Evals :
    (pc[e] \in { "loop", "done" }
       /\ \E j \in DOMAIN hulls[e] : Collinear(hulls[e][j])) =>
      /\ exc[e] = "none"
      /\ pc[e] = "done" =>
           ((response[e] = "false") <=>
              \E j \in DOMAIN hulls[e] : Contains(e, j))

C10_Witness ==
  \E e \in Evals :
    /\ pc[e] = "done"
    /\ Len(hulls[e]) = 2
    /\ Collinear(hulls[e][1])
    /\ Contains(e, 2)
    /\ response[e] = "false"

====
